---- MODULE Spec2Model ----
(***************************************************************************)
(* The exam-taking session of the exam platform: the session reducer       *)
(* (examReducer), the session controller (ExamInterface: submission,       *)
(* countdown interval, time-expiry effect) and the proctoring monitor      *)
(* (useFullscreenEnforcement).                                             *)
(*                                                                         *)
(* React is modelled by what its scheduling lets the code observe: the     *)
(* latest value of every piece of component state, the values the last     *)
(* committed render captured (the closures of handlers and effects), and   *)
(* whether that commit's passive effects have run yet.                     *)
(***************************************************************************)
EXTENDS Integers, Sequences, FiniteSets, TLC

\* ------------------------------------------------------------------ bounds
\* Largest number of questions of an exam document.
NumQuestions == 2
\* Largest initial remaining time, in seconds (duration * 60 in the source).
MaxTime == 2
\* Longest text typed into a marks field of the grading dialog.
MaxInputLen == 3
\* Pages of one exam open side by side in one browser.
NumTabs == 2
\* Largest number of questions of the exams the navigation is explored on.
NavQuestions == 3
\* Number of choices of an mcq question.
NumOptions == 2
\* Violation counts are explored up to this value.
MaxExitCount == 4
\* Page loads (first load, reloads and re-openings) of one exam that are explored.
MaxSessions == 2
\* New snapshots of the exam document delivered while a page is open.
MaxSnapshots == 1

\* --------------------------------------------------------- program constants
MAX_EXITS == 3
MarksPerQuestion == 10

\* ------------------------------------------------------------------- types
QuestionStatus == {"not-visited", "not-answered", "answered", "marked-for-review"}

\* An answer value of the answers Map: absent/null, a number or a string.
NullAnswer == [kind |-> "null", num |-> 0, str |-> ""]
NumAnswer(n) == [kind |-> "number", num |-> n, str |-> ""]
StrAnswer(s) == [kind |-> "string", num |-> 0, str |-> s]

Texts == {"", "a"}

Min(a, b) == IF a < b THEN a ELSE b
Max(a, b) == IF a > b THEN a ELSE b

\* Questions are identified by their position 1..n in the exam document; the
\* statuses Map keeps them in that (insertion) order, so Array.from(keys())[i]
\* is question i+1 when 0 <= i < size and undefined otherwise.
HasKeyAt(statuses, i) == i >= 0 /\ i < Len(statuses)

\* ----------------------------------------------------------------- reducer
\* A promotion that also marks every question before the landing one as
\* seen: C27 depends on the promotion touching one question only.
PromoteUpTo(statuses, i) ==
    IF HasKeyAt(statuses, i)
    THEN [q \in 1..Len(statuses) |->
            IF q <= i + 1 /\ statuses[q] = "not-visited"
            THEN "not-answered" ELSE statuses[q]]
    ELSE statuses

\* The promotion every navigation applies to the question it lands on.
Promote(statuses, i) ==
    IF HasKeyAt(statuses, i) /\ statuses[i + 1] = "not-visited"
    THEN [statuses EXCEPT ![i + 1] = "not-answered"]
    ELSE statuses

\* A START_EXAM that only sets the flag: C26 depends on the promotion of the
\* first question.
ReduceStartNoPromote(s) == [s EXCEPT !.examStarted = TRUE]

\* A START_EXAM that also reopens a finished session: C37 depends on
\* examFinished being left alone.
ReduceStartReopens(s) ==
    IF Len(s.statuses) = 0
    THEN [s EXCEPT !.examStarted = TRUE, !.examFinished = FALSE]
    ELSE [s EXCEPT !.examStarted = TRUE, !.examFinished = FALSE,
                   !.statuses = Promote(s.statuses, 0)]

ReduceStart(s) ==
    IF Len(s.statuses) = 0
    THEN [s EXCEPT !.examStarted = TRUE]
    ELSE [s EXCEPT !.examStarted = TRUE, !.statuses = Promote(s.statuses, 0)]

ReduceNext(s) ==
    LET nextIndex == Min(s.currentQuestionIndex + 1, s.totalQuestions - 1)
    IN  [s EXCEPT !.currentQuestionIndex = nextIndex,
                  !.statuses = Promote(s.statuses, nextIndex)]

ReducePrev(s) ==
    [s EXCEPT !.currentQuestionIndex = Max(s.currentQuestionIndex - 1, 0)]

ReduceJump(s, payload) ==
    [s EXCEPT !.currentQuestionIndex = payload,
              !.statuses = Promote(s.statuses, payload)]

\* An ANSWER that sets the status to answered whatever it was: C20 depends on
\* the test for marked-for-review.
ReduceAnswerAlways(s, questionId, value) ==
    [s EXCEPT !.answers[questionId] = value, !.statuses[questionId] = "answered"]

\* questionId is a position 1..n of the exam's questions.
ReduceAnswer(s, questionId, value) ==
    [s EXCEPT !.answers[questionId] = value,
              !.statuses[questionId] =
                  IF s.statuses[questionId] # "marked-for-review"
                  THEN "answered" ELSE s.statuses[questionId]]

\* A toggle that reverts to not-answered whatever the answer: C21 depends on
\* the test of the answer value.
ReduceToggleNoValue(s, questionId) ==
    [s EXCEPT !.statuses[questionId] =
        IF s.statuses[questionId] = "marked-for-review"
        THEN "not-answered" ELSE "marked-for-review"]

\* A toggle that reverts to answered whatever the answer: C35 depends on the
\* not-answered branch.
ReduceToggleAnswered(s, questionId) ==
    [s EXCEPT !.statuses[questionId] =
        IF s.statuses[questionId] = "marked-for-review"
        THEN "answered" ELSE "marked-for-review"]

\* A toggle that gives an unanswered question back as never visited: C38
\* depends on the status it reverts to.
ReduceToggleUnvisits(s, questionId) ==
    [s EXCEPT !.statuses[questionId] =
        IF s.statuses[questionId] = "marked-for-review"
        THEN (IF s.answers[questionId].kind # "null" THEN "answered" ELSE "not-visited")
        ELSE "marked-for-review"]

ReduceToggle(s, questionId) ==
    [s EXCEPT !.statuses[questionId] =
        IF s.statuses[questionId] = "marked-for-review"
        THEN (IF s.answers[questionId].kind # "null" THEN "answered" ELSE "not-answered")
        ELSE "marked-for-review"]

\* A tick that finishes only once the time is already 0: C22 depends on the
\* test timeLeft <= 1.
ReduceTickLate(s) ==
    IF s.timeLeft <= 0
    THEN [s EXCEPT !.timeLeft = 0, !.examFinished = TRUE]
    ELSE [s EXCEPT !.timeLeft = s.timeLeft - 1]

\* A tick that finishes one second early: C36 depends on the threshold.
ReduceTickEarly(s) ==
    IF s.timeLeft <= 2
    THEN [s EXCEPT !.timeLeft = 0, !.examFinished = TRUE]
    ELSE [s EXCEPT !.timeLeft = s.timeLeft - 1]

ReduceTick(s) ==
    IF s.timeLeft <= 1
    THEN [s EXCEPT !.timeLeft = 0, !.examFinished = TRUE]
    ELSE [s EXCEPT !.timeLeft = s.timeLeft - 1]

\* A finish that keeps the remaining time: C23 depends on timeLeft: 0.
ReduceFinishKeepsTime(s) == [s EXCEPT !.examFinished = TRUE]
\* A finish that also goes back to the first question: C25 depends on the
\* spread of the old state.
ReduceFinishRewinds(s) ==
    [s EXCEPT !.examFinished = TRUE, !.timeLeft = 0, !.currentQuestionIndex = 0]

ReduceFinish(s) == [s EXCEPT !.examFinished = TRUE, !.timeLeft = 0]

\* An action is [type, payload, questionId, value, state]; fields an action
\* type does not carry are ignored.
NoState ==
    [currentQuestionIndex |-> 0, answers |-> <<>>, statuses |-> <<>>, timeLeft |-> 0,
     examStarted |-> FALSE, examFinished |-> FALSE, totalQuestions |-> 0]
Act(type) ==
    [type |-> type, payload |-> 0, questionId |-> 1, value |-> NullAnswer,
     state |-> NoState]
ActInitialize(st) == [Act("INITIALIZE") EXCEPT !.state = st]
ActJump(i) == [Act("JUMP_TO_QUESTION") EXCEPT !.payload = i]
ActAnswer(q, v) == [Act("ANSWER") EXCEPT !.questionId = q, !.value = v]
ActToggle(q) == [Act("TOGGLE_MARK_FOR_REVIEW") EXCEPT !.questionId = q]

examReducer(s, a) ==
    CASE a.type = "INITIALIZE" -> a.state
      [] a.type = "START_EXAM" -> ReduceStart(s)
      [] a.type = "NEXT_QUESTION" -> ReduceNext(s)
      [] a.type = "PREV_QUESTION" -> ReducePrev(s)
      [] a.type = "JUMP_TO_QUESTION" -> ReduceJump(s, a.payload)
      [] a.type = "ANSWER" -> ReduceAnswer(s, a.questionId, a.value)
      [] a.type = "TOGGLE_MARK_FOR_REVIEW" -> ReduceToggle(s, a.questionId)
      [] a.type = "TICK_TIMER" -> ReduceTick(s)
      [] a.type = "FINISH_EXAM" -> ReduceFinish(s)
      [] OTHER -> s

\* ----------------------------------------------------------- exam documents
\* An exam document: its type, its initial time and the stored correct option
\* of each question (questions carry no other field the session reads).
\* An optional value is <<>> (undefined/null) or <<v>>.
ExamDoc(type, time, correct) ==
    [examType |-> type, timeLeft |-> time, correctOption |-> correct]

\* The value of useMemo(initialState) for an exam document.
initialState(exam) ==
    LET n == Len(exam.correctOption)
    IN  [currentQuestionIndex |-> 0,
         answers |-> [q \in 1..n |-> NullAnswer],
         statuses |-> [q \in 1..n |-> "not-visited"],
         timeLeft |-> exam.timeLeft,
         examStarted |-> FALSE,
         examFinished |-> FALSE,
         totalQuestions |-> n]

\* The questions of an exam document, and what the preparation effect keeps
\* of a question: const { correctOption, ...rest } = q; return rest.
Question(ex, q) == [id |-> q, correctOption |-> ex.correctOption[q]]
\* A preparation that keeps the whole question: C16 depends on the stripping.
StripNothing(question) == question
Strip(question) == [id |-> question.id]

\* examForStudent: the exam document with every question stripped.
examForStudent(ex) ==
    [examType |-> ex.examType,
     timeLeft |-> ex.timeLeft,
     questions |-> [q \in 1..Len(ex.correctOption) |-> Strip(Question(ex, q))]]

\* initialState as the source computes it, from examForStudent alone.
InitialStateOf(view) ==
    LET n == Len(view.questions)
    IN  [currentQuestionIndex |-> 0,
         answers |-> [q \in 1..n |-> NullAnswer],
         statuses |-> [q \in 1..n |-> "not-visited"],
         timeLeft |-> view.timeLeft,
         examStarted |-> FALSE,
         examFinished |-> FALSE,
         totalQuestions |-> n]

\* ------------------------------------------------------------------- state
VARIABLES
    exam,           \* examData: the exam document of the page's exam id
    state,          \* the reducer state (latest value)
    isSubmitting,   \* ExamInterface useState (latest value)
    isFullscreen,   \* hook useState, kept equal to document.fullscreenElement != null
    isPageVisible,  \* hook useState, kept equal to document.visibilityState = 'visible'
    exitCount,      \* hook useState (latest value)
    warningIssued,  \* hook useState (latest value)
    rendered,       \* the values the last committed render captured
    effectsPending, \* the last commit's passive effects have not run yet
    expiryDue,      \* handleSubmitExam changed identity in the last commit
    installed,      \* examStarted/examFinished captured by the installed effect cleanups
    fsRequest,      \* requestFullscreen(): "none" or "pending"
    storage,        \* localStorage item fullscreenExitCount_<examId>: <<>> or <<n>>
    inflight,       \* submissions handed to setDocumentNonBlocking, not yet resolved
    store,          \* the documents of studentExams written for this student and exam
    lastWrite,      \* outcome of the last resolved write: "none", "ok", "failed"
    writes,         \* writes issued by this page load
    navigated,      \* router.push('/student/dashboard') was called
    mounted,        \* the ExamInterface component is mounted
    session,        \* number of page loads of this exam so far
    snapshots,      \* exam-document snapshots delivered to this page load after the first
    out,            \* what the last step emitted: toasts and calls
    lastAction,     \* the action examReducer was last applied to on its own
    tabs,           \* pages of this exam open side by side in one browser
    grading         \* the manual grading dialog (GradeSubmissionDialog)

vars == <<exam, state, isSubmitting, isFullscreen, isPageVisible, exitCount,
          warningIssued, rendered, effectsPending, expiryDue, installed, fsRequest,
          storage, inflight, store, lastWrite, writes, navigated, mounted, session,
          snapshots, out, lastAction, tabs, grading>>

\* A page of the exam open in a tab of its own: its component state.
TabIds == 1..NumTabs
ClosedTab ==
    [open |-> FALSE, state |-> NoState, isSubmitting |-> FALSE, isFullscreen |-> FALSE,
     isPageVisible |-> TRUE, exitCount |-> 0, warningIssued |-> FALSE,
     navigated |-> FALSE]
NoTabs == [t \in TabIds |-> ClosedTab]

\* The grading dialog before a submission is shown in it. marks holds the
\* marks of each answer (<<>> is undefined); input is the last call of
\* handleMarksChange and notice whether it raised the Invalid Marks toast.
NoGrading ==
    [open |-> FALSE, marks |-> <<>>, input |-> [questionId |-> 1, value |-> <<>>],
     notice |-> FALSE]

\* The whole state as one record, so that a handler, the render it causes and
\* the effects of that render compose as functions.
World ==
    [exam |-> exam, state |-> state, isSubmitting |-> isSubmitting,
     isFullscreen |-> isFullscreen, isPageVisible |-> isPageVisible,
     exitCount |-> exitCount, warningIssued |-> warningIssued, rendered |-> rendered,
     effectsPending |-> effectsPending, expiryDue |-> expiryDue,
     installed |-> installed, fsRequest |-> fsRequest, storage |-> storage,
     inflight |-> inflight, store |-> store, lastWrite |-> lastWrite,
     writes |-> writes, navigated |-> navigated, mounted |-> mounted,
     session |-> session, snapshots |-> snapshots, out |-> {},
     lastAction |-> lastAction]

Becomes(w) ==
    /\ exam' = w.exam
    /\ state' = w.state
    /\ isSubmitting' = w.isSubmitting
    /\ isFullscreen' = w.isFullscreen
    /\ isPageVisible' = w.isPageVisible
    /\ exitCount' = w.exitCount
    /\ warningIssued' = w.warningIssued
    /\ rendered' = w.rendered
    /\ effectsPending' = w.effectsPending
    /\ expiryDue' = w.expiryDue
    /\ installed' = w.installed
    /\ fsRequest' = w.fsRequest
    /\ storage' = w.storage
    /\ inflight' = w.inflight
    /\ store' = w.store
    /\ lastWrite' = w.lastWrite
    /\ writes' = w.writes
    /\ navigated' = w.navigated
    /\ mounted' = w.mounted
    /\ session' = w.session
    /\ snapshots' = w.snapshots
    /\ out' = w.out
    /\ lastAction' = w.lastAction
    /\ tabs' = tabs
    /\ grading' = grading

Starts(w) ==
    /\ exam = w.exam
    /\ state = w.state
    /\ isSubmitting = w.isSubmitting
    /\ isFullscreen = w.isFullscreen
    /\ isPageVisible = w.isPageVisible
    /\ exitCount = w.exitCount
    /\ warningIssued = w.warningIssued
    /\ rendered = w.rendered
    /\ effectsPending = w.effectsPending
    /\ expiryDue = w.expiryDue
    /\ installed = w.installed
    /\ fsRequest = w.fsRequest
    /\ storage = w.storage
    /\ inflight = w.inflight
    /\ store = w.store
    /\ lastWrite = w.lastWrite
    /\ writes = w.writes
    /\ navigated = w.navigated
    /\ mounted = w.mounted
    /\ session = w.session
    /\ snapshots = w.snapshots
    /\ out = w.out
    /\ lastAction = w.lastAction
    /\ tabs = NoTabs
    /\ grading = NoGrading

\* What a render captures.
Snapshot(w) ==
    [state |-> w.state, isSubmitting |-> w.isSubmitting,
     isFullscreen |-> w.isFullscreen, isPageVisible |-> w.isPageVisible,
     exitCount |-> w.exitCount, warningIssued |-> w.warningIssued]

Emit(w, events) == [w EXCEPT !.out = @ \cup events]

\* parseInt(localStorage.getItem(storageKey) || '0', 10)
StoredCount(item) == IF item = <<>> THEN 0 ELSE item[1]

\* ------------------------------------------------------ submission builder
\* A scoring that compares the two options without asking whether each is a
\* number: C13 depends on the typeof tests.
AnswerRecordLoose(st, ex, q) ==
    LET answer == st.answers[q]
        selected == IF answer.kind = "number" THEN <<answer.num>> ELSE <<>>
        correct == ex.correctOption[q]
    IN  IF ex.examType = "mcq"
        THEN [status |-> st.statuses[q],
              selectedOption |-> selected,
              correctOption |-> correct,
              textAnswer |-> <<>>,
              marks |-> IF selected = correct THEN <<MarksPerQuestion>> ELSE <<0>>]
        ELSE [status |-> st.statuses[q],
              selectedOption |-> <<>>,
              correctOption |-> <<>>,
              textAnswer |-> <<IF answer.kind = "string" THEN answer.str ELSE "">>,
              marks |-> <<>>]

\* A builder that scores every exam as an mcq exam: C14 depends on the test
\* of the exam type.
AnswerRecordScored(st, ex, q) ==
    LET answer == st.answers[q]
        selected == IF answer.kind = "number" THEN <<answer.num>> ELSE <<>>
        correct == ex.correctOption[q]
    IN  [status |-> st.statuses[q],
         selectedOption |-> selected,
         correctOption |-> correct,
         textAnswer |-> <<>>,
         marks |-> IF selected # <<>> /\ correct # <<>> /\ selected = correct
                   THEN <<MarksPerQuestion>> ELSE <<0>>]

\* A builder that reports every question as not-visited: C15 depends on the
\* status being read from the session state.
AnswerRecordNoStatus(st, ex, q) ==
    LET answer == st.answers[q]
    IN  [status |-> "not-visited",
         selectedOption |-> IF ex.examType = "mcq" /\ answer.kind = "number"
                            THEN <<answer.num>> ELSE <<>>,
         correctOption |-> IF ex.examType = "mcq" THEN ex.correctOption[q] ELSE <<>>,
         textAnswer |-> IF ex.examType = "mcq" THEN <<>>
                        ELSE <<IF answer.kind = "string" THEN answer.str ELSE "">>,
         marks |-> IF ex.examType = "mcq" THEN <<0>> ELSE <<>>]

\* One answer record of the submission (studentAnswers[index]), marks included.
AnswerRecord(st, ex, q) ==
    LET answer == st.answers[q]
        selected == IF answer.kind = "number" THEN <<answer.num>> ELSE <<>>
        correct == ex.correctOption[q]
    IN  IF ex.examType = "mcq"
        THEN [status |-> st.statuses[q],
              selectedOption |-> selected,
              correctOption |-> correct,
              textAnswer |-> <<>>,
              marks |-> IF selected # <<>> /\ correct # <<>> /\ selected = correct
                        THEN <<MarksPerQuestion>> ELSE <<0>>]
        ELSE [status |-> st.statuses[q],
              selectedOption |-> <<>>,
              correctOption |-> <<>>,
              textAnswer |-> <<IF answer.kind = "string" THEN answer.str ELSE "">>,
              marks |-> <<>>]

\* studentExamSubmission as handed to setDocumentNonBlocking. The score
\* (marks / (length || 1)) * 100 is kept as the pair of its numerator and
\* denominator.
buildSubmission(st, ex, details) ==
    LET n == Len(ex.correctOption)
        answers == [q \in 1..n |-> AnswerRecord(st, ex, q)]
        correctCount == Cardinality({q \in 1..n : answers[q].marks = <<MarksPerQuestion>>})
    IN  [answers |-> answers,
         autoSubmitted |-> details.autoSubmitted,
         exitCount |-> details.exitCount,
         score |-> IF ex.examType = "mcq"
                   THEN <<correctCount * 100, IF n = 0 THEN 1 ELSE n>> ELSE <<>>,
         status |-> IF ex.examType = "mcq" THEN "graded" ELSE "completed"]

\* The signed-in student and the exam of the page.
UserId == "uid"
ExamId == "examId"

\* A document reference with an id of its own for every write, as addDoc
\* would make: C29 depends on the id being made of the student and the exam.
autoIdDocRef(uid, examId) == <<"studentExams", uid, examId, writes>>

\* doc(firestore, 'studentExams', `${user.uid}_${examId}`)
studentExamDocRef(uid, examId) == <<"studentExams", uid, examId>>

\* What setDocumentNonBlocking(ref, data, { merge: true }) hands to the store:
\* the fields of the submission and the reference they are written to.
WriteRequest(ref, data) == [ref |-> ref] @@ data

\* The store applies a write with merge: the document of that reference is
\* created when there is none; otherwise the fields the write carries
\* replace the stored ones (arrays as a whole) and the fields it does not
\* carry (score, for an exam that is not mcq) are kept.
MergeFields(old, new) ==
    [f \in DOMAIN new |-> IF f = "score" /\ new[f] = <<>> THEN old[f] ELSE new[f]]
setDocMerge(docs, write) ==
    IF \E i \in 1..Len(docs) : docs[i].ref = write.ref
    THEN [i \in 1..Len(docs) |->
            IF docs[i].ref = write.ref THEN MergeFields(docs[i], write) ELSE docs[i]]
    ELSE Append(docs, write)

\* handleSubmitExam as created by the render that captured r. `throws` is the
\* outcome of the try block: an exception before the write is handed over
\* (caught: the flag is cleared), or the write handed to the store without
\* waiting for its result, followed by FINISH_EXAM and the navigation.
SubmitUnguarded(w, r, details, throws) ==
    IF throws
    THEN Emit([w EXCEPT !.isSubmitting = FALSE],
              {"toast: Submitting exam...", "toast: Submission Failed"})
    ELSE Emit([w EXCEPT !.isSubmitting = TRUE,
                        !.inflight = Append(@, WriteRequest(studentExamDocRef(UserId, ExamId),
                                  buildSubmission(r.state, w.exam, details))),
                        !.writes = @ + 1,
                        !.state = examReducer(@, Act("FINISH_EXAM")),
                        !.navigated = TRUE],
              {"toast: Submitting exam...", "setDocumentNonBlocking",
               "toast: Exam Submitted!", "router.push"})
handleSubmitExam(w, r, details, throws) ==
    IF r.isSubmitting THEN w ELSE SubmitUnguarded(w, r, details, throws)

\* A forced submission that reports the count its render captured instead of
\* the persisted one: C8 tells the two apart.
handleAutoSubmitCaptured(w, r, throws) ==
    handleSubmitExam(Emit(w, {"onAutoSubmit"}), r,
                     [autoSubmitted |-> TRUE, exitCount |-> r.exitCount],
                     throws)

handleAutoSubmit(w, r, throws) ==
    handleSubmitExam(Emit(w, {"onAutoSubmit"}), r,
                     [autoSubmitted |-> TRUE, exitCount |-> StoredCount(w.storage)],
                     throws)

\* ------------------------------------------------------- proctoring monitor
Warnings ==
    <<"toast: Warning 1/3 Please stay in the secure exam environment.",
      "toast: Warning 2/3 You will be auto-submitted if you leave again.",
      "toast: Warning 3/3 Next exit will auto-submit your exam.">>

IsWarning(e) == \E i \in 1..Len(Warnings) : e = Warnings[i]

\* The core effect of useFullscreenEnforcement, run with the values render r captured.
MonitorActive(r) == r.state.examStarted /\ ~r.state.examFinished
IsSecure(r) == r.isFullscreen /\ r.isPageVisible
\* A monitor that forces the submission on reaching MAX_EXITS: C5 tells it
\* from the code's, which forces it above MAX_EXITS.
ThresholdAtMax(newCount) == newCount >= MAX_EXITS
Threshold(newCount) == newCount > MAX_EXITS

\* A violation that counts up from the persisted value instead of the
\* value the render captured: C30 depends on the in-memory count.
MonitorViolationFromStorage(w, r, throws) ==
    LET newCount == StoredCount(w.storage) + 1
        w1 == Emit([w EXCEPT !.exitCount = newCount,
                             !.storage = <<newCount>>,
                             !.warningIssued = TRUE],
                   {"localStorage.setItem"})
    IN  IF Threshold(newCount)
        THEN handleAutoSubmit(Emit(w1, {"toast: Auto-Submitting Exam"}), r, throws)
        ELSE Emit(w1, {Warnings[newCount]})

MonitorViolation(w, r, throws) ==
    LET newCount == r.exitCount + 1
        w1 == Emit([w EXCEPT !.exitCount = newCount,
                             !.storage = <<newCount>>,
                             !.warningIssued = TRUE],
                   {"localStorage.setItem"})
    IN  IF Threshold(newCount)
        THEN handleAutoSubmit(Emit(w1, {"toast: Auto-Submitting Exam"}), r, throws)
        ELSE Emit(w1, {Warnings[newCount]})

\* A monitor without the latch: C6 depends on the latch.
MonitorEffectNoLatch(w, r, throws) ==
    IF ~MonitorActive(r) THEN w
    ELSE IF IsSecure(r) THEN [w EXCEPT !.warningIssued = FALSE]
    ELSE MonitorViolation(w, r, throws)

\* A monitor that does not look at examStarted and examFinished: C7 depends
\* on that guard.
MonitorEffectAlways(w, r, throws) ==
    IF IsSecure(r) THEN [w EXCEPT !.warningIssued = FALSE]
    ELSE IF ~r.warningIssued THEN MonitorViolation(w, r, throws)
    ELSE w

MonitorEffect(w, r, throws) ==
    IF ~MonitorActive(r) THEN w
    ELSE IF IsSecure(r) THEN [w EXCEPT !.warningIssued = FALSE]
    ELSE IF ~r.warningIssued THEN MonitorViolation(w, r, throws)
    ELSE w

\* A cleanup that removes the persisted count whatever it captured: C9
\* depends on the captured examFinished.
StorageCleanupAlways(w, capturedFinished) ==
    Emit([w EXCEPT !.storage = <<>>], {"localStorage.removeItem"})

\* The cleanup of the localStorage effect, with the examFinished it captured.
StorageCleanup(w, capturedFinished) ==
    IF capturedFinished
    THEN Emit([w EXCEPT !.storage = <<>>], {"localStorage.removeItem"})
    ELSE w

\* The cleanup of the header effect: leaves full-screen when the document is in it.
HeaderCleanup(w) ==
    IF w.isFullscreen THEN [w EXCEPT !.isFullscreen = FALSE] ELSE w

\* The time-expiry effect, run with the values render r captured.
ExpiryEffect(w, r, throws) ==
    IF r.state.timeLeft <= 0 /\ ~r.state.examFinished
    THEN handleSubmitExam(w, r, [autoSubmitted |-> TRUE,
                                 exitCount |-> StoredCount(w.storage)], throws)
    ELSE w

\* ------------------------------------------------------------------- React
Dirty(w) == Snapshot(w) # w.rendered

\* A render commits: handlers and effects now close over the latest values.
Commit(w) ==
    [w EXCEPT !.rendered = Snapshot(w),
              !.effectsPending = TRUE,
              !.expiryDue = (w.state # w.rendered.state
                             \/ w.isSubmitting # w.rendered.isSubmitting)]

\* The passive effects of the last commit, in hook order: the cleanups of the
\* effects whose dependencies changed, then the effects themselves.
Flush(w, throws) ==
    IF ~w.effectsPending THEN w
    ELSE
    LET r == w.rendered
        now == [examStarted |-> r.state.examStarted, examFinished |-> r.state.examFinished]
        w1 == IF now.examFinished # w.installed.examFinished
              THEN StorageCleanup(w, w.installed.examFinished) ELSE w
        w2 == IF now.examStarted # w.installed.examStarted THEN HeaderCleanup(w1) ELSE w1
        w3 == MonitorEffect(w2, r, throws)
        w4 == IF w.expiryDue THEN ExpiryEffect(w3, r, throws) ELSE w3
    IN  [w4 EXCEPT !.installed = now, !.effectsPending = FALSE]

\* A discrete event (a click, an input): the handler's updates are rendered
\* synchronously; effects still pending from an earlier commit run first, with
\* the values that commit captured, and the new commit's effects run at once.
AfterDiscrete(w, throws) ==
    LET w1 == Flush(w, throws)
    IN  IF Dirty(w1) THEN Flush(Commit(w1), throws) ELSE w1

\* The interval of the countdown effect exists.
TimerInstalled(w) == w.installed.examStarted /\ ~w.installed.examFinished

\* What the committed render shows.
Screen(r) ==
    IF ~r.state.examStarted THEN "start"
    ELSE IF r.state.examFinished THEN "finished"
    ELSE IF ~r.isFullscreen THEN "left-fullscreen"
    ELSE "exam"

\* ---------------------------------------------------------------- page load
\* The exam documents a session is opened on.
SessionExams ==
    {ExamDoc(type, time, [q \in 1..n |-> <<0>>]) :
        type \in {"mcq", "long-answer"}, time \in {MaxTime}, n \in {NumQuestions}}

\* No page of the exam is open: no component state exists; the exam document,
\* localStorage and the store persist.
Blank(ex) ==
    LET st == initialState(ex)
    IN  [exam |-> ex, state |-> st, isSubmitting |-> FALSE,
         isFullscreen |-> FALSE, isPageVisible |-> TRUE, exitCount |-> 0,
         warningIssued |-> FALSE,
         rendered |-> [state |-> st, isSubmitting |-> FALSE, isFullscreen |-> FALSE,
                       isPageVisible |-> TRUE, exitCount |-> 0,
                       warningIssued |-> FALSE],
         effectsPending |-> FALSE, expiryDue |-> FALSE,
         installed |-> [examStarted |-> FALSE, examFinished |-> FALSE],
         fsRequest |-> "none", storage |-> <<>>, inflight |-> <<>>, store |-> <<>>,
         lastWrite |-> "none", writes |-> 0, navigated |-> FALSE, mounted |-> FALSE,
         session |-> 0, snapshots |-> 0, out |-> {},
         lastAction |-> Act("INITIALIZE")]

Closed(w) ==
    [Blank(w.exam) EXCEPT !.isPageVisible = w.isPageVisible,
                          !.storage = w.storage,
                          !.inflight = w.inflight,
                          !.store = w.store,
                          !.lastWrite = w.lastWrite,
                          !.session = w.session,
                          !.out = w.out]

\* A page load whose monitor starts from 0 whatever localStorage holds: C11
\* depends on the initialiser of exitCount.
MountedFromZero(w) ==
    LET fresh == [Closed(w) EXCEPT !.mounted = TRUE,
                                   !.session = @ + 1,
                                   !.effectsPending = TRUE,
                                   !.expiryDue = TRUE]
    IN  [fresh EXCEPT !.rendered = Snapshot(fresh)]

\* The page once the exam document has arrived and INITIALIZE has been
\* rendered; the effects of that commit are still to run. A page load starts
\* outside full-screen and reads the violation count from localStorage.
Mounted(w) ==
    LET fresh == [Closed(w) EXCEPT !.exitCount = StoredCount(w.storage),
                                   !.mounted = TRUE,
                                   !.session = @ + 1,
                                   !.effectsPending = TRUE,
                                   !.expiryDue = TRUE]
    IN  [fresh EXCEPT !.rendered = Snapshot(fresh)]

Init == \E ex \in SessionExams : Starts(Mounted(Blank(ex)))

\* ------------------------------------------------------------ user actions
\* A request that puts the document in full-screen before the handler goes
\* on: C28 depends on the request being answered later.
enterFullscreenAtOnce(w) == [w EXCEPT !.isFullscreen = TRUE]

\* enterFullscreen(): requestFullscreen() resolves at once when the document
\* is already in full-screen and is pending otherwise.
enterFullscreen(w) ==
    IF w.isFullscreen THEN w ELSE [w EXCEPT !.fsRequest = "pending"]

dispatch(w, a) == [w EXCEPT !.state = examReducer(@, a)]

UserSees(scr) == mounted /\ isPageVisible /\ Screen(rendered) = scr

\* The id of the question the committed render shows.
CurrentQuestionId == rendered.state.currentQuestionIndex + 1

AnswerValues ==
    IF exam.examType = "mcq"
    THEN {NumAnswer(o) : o \in 0..(NumOptions - 1)}
    ELSE {StrAnswer(t) : t \in Texts}

ClickStart ==
    /\ UserSees("start")
    /\ \E throws \in BOOLEAN :
        Becomes(AfterDiscrete(dispatch(enterFullscreen(World), Act("START_EXAM")), throws))

ClickReturnToFullscreen ==
    /\ UserSees("left-fullscreen")
    /\ \E throws \in BOOLEAN : Becomes(AfterDiscrete(enterFullscreen(World), throws))

ClickNext ==
    /\ UserSees("exam")
    /\ rendered.state.currentQuestionIndex # Len(exam.correctOption) - 1
    /\ \E throws \in BOOLEAN :
        Becomes(AfterDiscrete(dispatch(World, Act("NEXT_QUESTION")), throws))

ClickPrev ==
    /\ UserSees("exam")
    /\ rendered.state.currentQuestionIndex # 0
    /\ \E throws \in BOOLEAN :
        Becomes(AfterDiscrete(dispatch(World, Act("PREV_QUESTION")), throws))

ClickPalette ==
    /\ UserSees("exam")
    /\ \E index \in 0..(Len(rendered.state.statuses) - 1), throws \in BOOLEAN :
        Becomes(AfterDiscrete(dispatch(World, ActJump(index)), throws))

InputAnswer ==
    /\ UserSees("exam")
    /\ \E v \in AnswerValues, throws \in BOOLEAN :
        Becomes(AfterDiscrete(dispatch(World, ActAnswer(CurrentQuestionId, v)), throws))

ClickMarkForReview ==
    /\ UserSees("exam")
    /\ \E throws \in BOOLEAN :
        Becomes(AfterDiscrete(dispatch(World, ActToggle(CurrentQuestionId)), throws))

\* End Exam, then Submit Exam in the dialog (both disabled while isSubmitting).
ClickSubmitExam ==
    /\ UserSees("exam")
    /\ ~rendered.isSubmitting
    /\ \E throws \in BOOLEAN :
        Becomes(AfterDiscrete(
            handleSubmitExam(World, rendered,
                             [autoSubmitted |-> FALSE, exitCount |-> rendered.exitCount],
                             throws),
            throws))

\* ------------------------------------------------------------- environment
\* The interval fires.
Tick ==
    /\ mounted
    /\ TimerInstalled(World)
    /\ Becomes(dispatch(World, Act("TICK_TIMER")))

\* The document leaves full-screen (Esc, a window switch): fullscreenchange.
FullscreenExit ==
    /\ mounted
    /\ isFullscreen
    /\ exitCount < MaxExitCount
    /\ Becomes([World EXCEPT !.isFullscreen = FALSE])

\* requestFullscreen() is granted: fullscreenchange.
FullscreenGranted ==
    /\ mounted
    /\ fsRequest = "pending"
    /\ Becomes([World EXCEPT !.isFullscreen = TRUE, !.fsRequest = "none"])

\* requestFullscreen() is rejected.
FullscreenDenied ==
    /\ mounted
    /\ fsRequest = "pending"
    /\ Becomes(Emit([World EXCEPT !.fsRequest = "none"],
                    {"toast: Could not enter full-screen"}))

\* The tab is hidden or shown: visibilitychange.
PageHidden ==
    /\ mounted
    /\ isPageVisible
    /\ exitCount < MaxExitCount
    /\ Becomes([World EXCEPT !.isPageVisible = FALSE])

PageShown ==
    /\ mounted
    /\ ~isPageVisible
    /\ Becomes([World EXCEPT !.isPageVisible = TRUE])

\* A new snapshot of the exam document: examForStudent and initialState are
\* recomputed and the INITIALIZE effect dispatches the new initial state.
ExamSnapshot ==
    /\ mounted
    /\ snapshots < MaxSnapshots
    /\ Becomes([dispatch(World, ActInitialize(initialState(exam)))
                    EXCEPT !.snapshots = @ + 1])

\* The store answers the oldest write in flight.
WriteSucceeds ==
    /\ inflight # <<>>
    /\ Becomes([World EXCEPT !.store = setDocMerge(@, Head(inflight)),
                             !.inflight = Tail(@),
                             !.lastWrite = "ok"])

WriteFails ==
    /\ inflight # <<>>
    /\ Becomes([World EXCEPT !.inflight = Tail(@), !.lastWrite = "failed"])

\* ------------------------------------------------------------------- React
Render ==
    /\ mounted
    /\ ~effectsPending
    /\ Dirty(World)
    /\ Becomes(Commit(World))

FlushEffects ==
    /\ mounted
    /\ effectsPending
    /\ \E throws \in BOOLEAN : Becomes(Flush(World, throws))

\* The component unmounts (the navigation completes, or the student leaves
\* the page inside the application): pending effects run, then every cleanup.
Unmount ==
    /\ mounted
    /\ \E throws \in BOOLEAN :
        LET w1 == Flush(World, throws)
            w2 == HeaderCleanup(StorageCleanup(w1, w1.installed.examFinished))
        IN  Becomes(Closed(w2))

\* The student opens the exam page again.
OpenExam ==
    /\ ~mounted
    /\ session < MaxSessions
    /\ Becomes(Mounted(World))

\* The page is reloaded: nothing of the old page runs any more.
Reload ==
    /\ mounted
    /\ session < MaxSessions
    /\ Becomes(Mounted(World))

\* One page load on an exam document that does not change: everything the
\* student, the browser, the timer, the store and React can do.
Next ==
    \/ ClickStart
    \/ ClickReturnToFullscreen
    \/ ClickNext
    \/ ClickPrev
    \/ ClickPalette
    \/ InputAnswer
    \/ ClickMarkForReview
    \/ ClickSubmitExam
    \/ Tick
    \/ FullscreenExit
    \/ FullscreenGranted
    \/ FullscreenDenied
    \/ PageHidden
    \/ PageShown
    \/ WriteSucceeds
    \/ WriteFails
    \/ Render
    \/ FlushEffects
    \/ Unmount

Spec == Init /\ [][Next]_vars

\* One page load on an exam document whose duration is 0 minutes.
ZeroInit ==
    \E type \in {"mcq", "long-answer"} :
        Starts(Mounted(Blank(ExamDoc(type, 0, [q \in 1..NumQuestions |-> <<0>>]))))

ZeroSpec == ZeroInit /\ [][Next]_vars

\* Page loads and exam-document snapshots: the student starts, leaves and
\* re-enters the secure environment and submits, without touching the
\* questions, over several page loads of the same exam, while the exam
\* document may change under the open page. The store accepts every write.
\* Without answers the type of the exam plays no part, so it is fixed.
LifecycleInit ==
    Starts(Mounted(Blank(ExamDoc("mcq", MaxTime, [q \in 1..NumQuestions |-> <<0>>]))))

LifecycleNext ==
    \/ ClickStart
    \/ ClickReturnToFullscreen
    \/ ClickSubmitExam
    \/ Tick
    \/ FullscreenExit
    \/ FullscreenGranted
    \/ FullscreenDenied
    \/ PageHidden
    \/ PageShown
    \/ ExamSnapshot
    \/ WriteSucceeds
    \/ Render
    \/ FlushEffects
    \/ Unmount
    \/ OpenExam
    \/ Reload

LifecycleSpec == LifecycleInit /\ [][LifecycleNext]_vars

\* ------------------------------------------------------- the reducer alone
\* examReducer applied to every action of its Action type, whatever the page
\* would dispatch: any index as a JUMP_TO_QUESTION payload, any question of
\* the exam and any value in an ANSWER.
ReducerExams ==
    {ExamDoc("mcq", time, [q \in 1..n |-> <<0>>]) :
        time \in 0..MaxTime, n \in 0..NumQuestions}

ReducerInit ==
    \E ex \in ReducerExams : Starts([Blank(ex) EXCEPT !.mounted = TRUE, !.session = 1])

AllAnswerValues ==
    {NumAnswer(o) : o \in 0..(NumOptions - 1)} \cup {StrAnswer(t) : t \in Texts}

Applied(a) == [World EXCEPT !.state = examReducer(state, a), !.lastAction = a]

DoStart ==
    /\ mounted
    /\ Becomes(Applied(Act("START_EXAM")))
DoNext ==
    /\ mounted
    /\ Becomes(Applied(Act("NEXT_QUESTION")))
DoPrev ==
    /\ mounted
    /\ Becomes(Applied(Act("PREV_QUESTION")))
DoJump ==
    /\ mounted
    /\ \E i \in (0 - 1)..NumQuestions : Becomes(Applied(ActJump(i)))
DoAnswer ==
    /\ mounted
    /\ \E q \in 1..Len(state.statuses), v \in AllAnswerValues :
        Becomes(Applied(ActAnswer(q, v)))
DoToggle ==
    /\ mounted
    /\ \E q \in 1..Len(state.statuses) : Becomes(Applied(ActToggle(q)))
DoTick ==
    /\ mounted
    /\ Becomes(Applied(Act("TICK_TIMER")))
DoFinish ==
    /\ mounted
    /\ Becomes(Applied(Act("FINISH_EXAM")))

ReducerNext ==
    \/ DoStart
    \/ DoNext
    \/ DoPrev
    \/ DoJump
    \/ DoAnswer
    \/ DoToggle
    \/ DoTick
    \/ DoFinish

ReducerSpec == ReducerInit /\ [][ReducerNext]_vars

\* The reducer with the interval of the countdown effect firing again and
\* again (setInterval, every second).
CountdownInit ==
    \E ex \in ReducerExams :
        /\ Len(ex.correctOption) <= 1
        /\ Starts([Blank(ex) EXCEPT !.mounted = TRUE, !.session = 1])

FairReducerSpec == CountdownInit /\ [][ReducerNext]_vars /\ WF_vars(DoTick)

\* --------------------------------------------------------- the navigation
\* The reducer's navigation, answer and marking actions on exams of up to
\* NavQuestions questions: enough for a question to lie between two visited
\* ones.
NavExams ==
    {ExamDoc("mcq", MaxTime, [q \in 1..n |-> <<0>>]) : n \in 1..NavQuestions}

NavInit ==
    \E ex \in NavExams : Starts([Blank(ex) EXCEPT !.mounted = TRUE, !.session = 1])

NavNext ==
    \/ DoStart
    \/ DoNext
    \/ DoPrev
    \/ DoJump
    \/ DoToggle
    \/ DoAnswer

NavSpec == NavInit /\ [][NavNext]_vars

\* -------------------------------------------------- the submission builder
\* handleSubmitExam applied to every session state the reducer can produce,
\* on exam documents of both types whose questions carry any stored correct
\* option or none.
KeyOptions == {<<>>} \cup {<<o>> : o \in 0..(NumOptions - 1)}

BuilderExams ==
    {ExamDoc(type, MaxTime, correct) :
        type \in {"mcq", "long-answer"},
        correct \in UNION {[1..n -> KeyOptions] : n \in 0..NumQuestions}}

BuilderInit ==
    \E ex \in BuilderExams : Starts([Blank(ex) EXCEPT !.mounted = TRUE, !.session = 1])

\* The student answers, marks and moves on until the session is submitted.
BuilderAnswer ==
    /\ mounted
    /\ writes = 0
    /\ \E q \in 1..Len(state.statuses), v \in AllAnswerValues :
        Becomes(dispatch(World, ActAnswer(q, v)))

BuilderToggle ==
    /\ mounted
    /\ writes = 0
    /\ \E q \in 1..Len(state.statuses) : Becomes(dispatch(World, ActToggle(q)))

BuilderVisit ==
    /\ mounted
    /\ writes = 0
    /\ \E a \in {Act("START_EXAM"), Act("NEXT_QUESTION")} : Becomes(dispatch(World, a))

\* The session is submitted, manually or by force, from the current state.
BuilderSubmit ==
    /\ mounted
    /\ writes = 0
    /\ \E auto \in BOOLEAN :
        Becomes(handleSubmitExam(World, Snapshot(World),
                                 [autoSubmitted |-> auto, exitCount |-> exitCount],
                                 FALSE))

BuilderNext ==
    \/ BuilderAnswer
    \/ BuilderToggle
    \/ BuilderVisit
    \/ BuilderSubmit

BuilderSpec == BuilderInit /\ [][BuilderNext]_vars

\* ------------------------------------------------------- the grading dialog
\* Texts of a marks field: strings over a few characters, as sequences.
Chars == {"0", "1", "9", "e", ".", "-"}
MarksInputs == UNION {[1..n -> Chars] : n \in 0..MaxInputLen}

IsDigit(c) == c \in {"0", "1", "9"}
DigitValue(c) == CASE c = "0" -> 0 [] c = "1" -> 1 [] c = "9" -> 9 [] OTHER -> 0

\* The number of digits a string starts with, and the value of a digit string.
RECURSIVE DigitPrefix(_)
DigitPrefix(str) ==
    IF str = <<>> \/ ~IsDigit(Head(str)) THEN 0 ELSE 1 + DigitPrefix(Tail(str))
RECURSIVE DecimalValue(_)
DecimalValue(str) ==
    IF str = <<>> THEN 0
    ELSE 10 * DecimalValue(SubSeq(str, 1, Len(str) - 1)) + DigitValue(str[Len(str)])

\* parseInt(str, 10): an optional sign and the digits the string starts
\* with, whatever follows them; NaN (<<>>) when there is no such digit.
parseInt(str) ==
    LET neg == str # <<>> /\ Head(str) = "-"
        body == IF neg THEN Tail(str) ELSE str
        k == DigitPrefix(body)
        v == DecimalValue(SubSeq(body, 1, k))
    IN  IF k = 0 THEN <<>> ELSE <<IF neg THEN 0 - v ELSE v>>

handleMarksChange(g, questionId, marksValue) ==
    LET newMarks == parseInt(marksValue)
        g1 == [g EXCEPT !.input = [questionId |-> questionId, value |-> marksValue]]
    IN  IF marksValue # <<>>
           /\ (newMarks = <<>> \/ newMarks[1] < 0 \/ newMarks[1] > 10)
        THEN [g1 EXCEPT !.notice = TRUE]
        ELSE [g1 EXCEPT !.notice = FALSE, !.marks[questionId] = newMarks]

GradingBecomes(g) ==
    /\ grading' = g
    /\ UNCHANGED <<exam, state, isSubmitting, isFullscreen, isPageVisible, exitCount,
                   warningIssued, rendered, effectsPending, expiryDue, installed,
                   fsRequest, storage, inflight, store, lastWrite, writes, navigated,
                   mounted, session, snapshots, out, lastAction, tabs>>

\* The marks a stored submission carries: none (subjective) or 0 / 10 (mcq).
SubmittedMarks == {<<>>, <<0>>, <<MarksPerQuestion>>}

GradingInit ==
    Starts(Blank(ExamDoc("mcq", MaxTime, [q \in 1..NumQuestions |-> <<0>>])))

\* The dialog is given a submission: its answers are copied into the state.
OpenGrading ==
    /\ ~grading.open
    /\ \E n \in 1..NumQuestions : \E m \in [1..n -> SubmittedMarks] :
        GradingBecomes([grading EXCEPT !.open = TRUE, !.marks = m])

\* The grader changes the text of the marks field of an answer.
MarksInput ==
    /\ grading.open
    /\ \E q \in 1..Len(grading.marks), v \in MarksInputs :
        GradingBecomes(handleMarksChange(grading, q, v))

GradingNext ==
    \/ OpenGrading
    \/ MarksInput

GradingSpec == GradingInit /\ [][GradingNext]_vars

\* ------------------------------------------------------------ several tabs
\* The exam open in several tabs of one browser: every tab has its own
\* component state, and all share localStorage and the store. An event of a
\* tab, the render it causes and that render's effects are one step.
TabWorld(t) ==
    [World EXCEPT !.state = tabs[t].state,
                  !.isSubmitting = tabs[t].isSubmitting,
                  !.isFullscreen = tabs[t].isFullscreen,
                  !.isPageVisible = tabs[t].isPageVisible,
                  !.exitCount = tabs[t].exitCount,
                  !.warningIssued = tabs[t].warningIssued,
                  !.navigated = tabs[t].navigated]

\* The monitor effect of tab t's render of w.
TabEffects(w) == MonitorEffect(w, Snapshot(w), FALSE)

TabBecomes(t, w) ==
    /\ tabs' = [tabs EXCEPT ![t] =
                    [open |-> TRUE, state |-> w.state, isSubmitting |-> w.isSubmitting,
                     isFullscreen |-> w.isFullscreen, isPageVisible |-> w.isPageVisible,
                     exitCount |-> w.exitCount, warningIssued |-> w.warningIssued,
                     navigated |-> w.navigated]]
    /\ storage' = w.storage
    /\ inflight' = w.inflight
    /\ writes' = w.writes
    /\ out' = w.out
    /\ UNCHANGED <<exam, state, isSubmitting, isFullscreen, isPageVisible, exitCount,
                   warningIssued, rendered, effectsPending, expiryDue, installed,
                   fsRequest, store, lastWrite, navigated, mounted, session, snapshots,
                   lastAction, grading>>

TabsInit ==
    Starts(Blank(ExamDoc("mcq", MaxTime, [q \in 1..NumQuestions |-> <<0>>])))

\* A tab opens the exam page: the monitor reads the persisted count.
TabOpens ==
    \E t \in TabIds :
        /\ ~tabs[t].open
        /\ TabBecomes(t, [World EXCEPT !.exitCount = StoredCount(storage)])

\* Start Exam in a tab.
TabStarts ==
    \E t \in TabIds :
        /\ tabs[t].open
        /\ ~tabs[t].state.examStarted
        /\ tabs[t].isPageVisible
        /\ tabs[t].exitCount < MaxExitCount
        /\ TabBecomes(t, TabEffects(dispatch(TabWorld(t), Act("START_EXAM"))))

\* fullscreenchange or visibilitychange in a tab.
TabChanges ==
    \E t \in TabIds, fs \in BOOLEAN, vis \in BOOLEAN :
        /\ tabs[t].open
        /\ (fs # tabs[t].isFullscreen) # (vis # tabs[t].isPageVisible)
        /\ (fs /\ vis) \/ tabs[t].exitCount < MaxExitCount
        /\ TabBecomes(t, TabEffects([TabWorld(t) EXCEPT !.isFullscreen = fs,
                                                        !.isPageVisible = vis]))

TabsNext ==
    \/ TabOpens
    \/ TabStarts
    \/ TabChanges

TabsSpec == TabsInit /\ [][TabsNext]_vars

\* ------------------------------------------------------------------ claims
\* C1: for every sequence of reducer actions on an initialized session of an
\* exam that has questions, currentQuestionIndex stays within
\* [0, totalQuestions - 1] and every status is one of the four defined values.
C1_IndexAndStatusesInRange ==
    state.totalQuestions >= 1 =>
        /\ state.currentQuestionIndex >= 0
        /\ state.currentQuestionIndex <= state.totalQuestions - 1
        /\ \A q \in 1..Len(state.statuses) : state.statuses[q] \in QuestionStatus

\* What a step emitted.
Emitted(e) == e \in out'
\* The monitor counted a violation in this step.
Edge == Emitted("localStorage.setItem")
\* The monitor called onAutoSubmit in this step.
Forced == Emitted("onAutoSubmit")
\* A submission was handed to the store in this step.
Wrote == Emitted("setDocumentNonBlocking")
Warned == \E e \in out' : IsWarning(e)
\* The page is at rest: every update is rendered and every effect has run.
Quiescent == mounted /\ ~effectsPending /\ ~Dirty(World)

\* C2: a session that has reached finished, by any terminal action, has had
\* its state handed to the submission builder and a write issued; stated for
\* the page at rest, where nothing is left that could still submit.
C2_FinishedSessionIsSubmitted ==
    (Quiescent /\ state.examFinished) => writes >= 1

\* C3: handleSubmitExam writes at most one result per session; a second
\* finish request performs no second write.
C3_AtMostOneWrite == writes <= 1

\* C4: when the write of the submission has failed and none has succeeded,
\* the in-flight flag is cleared and the session was neither finished by
\* handleSubmitExam nor navigated away from.
C4_FailedWriteAllowsRetry ==
    (mounted /\ lastWrite = "failed" /\ store = <<>>) =>
        (~isSubmitting /\ ~state.examFinished /\ ~navigated)

\* C5: counting from a persisted count of 0, every violation raises the count
\* by one; the monitor calls forced submission in exactly the steps that raise
\* it above MAX_EXITS (the 4th edge), and a step that raises it to at most
\* MAX_EXITS emits a warning, writes nothing and, when it is the monitor's
\* effect alone, leaves the session state unchanged.
C5_EdgeStep ==
    Edge =>
        /\ storage' = <<exitCount + 1>>
        /\ Forced <=> (exitCount + 1 > MAX_EXITS)
        /\ (exitCount + 1 <= MAX_EXITS) =>
              /\ Warned
              /\ Emitted(Warnings[exitCount + 1])
              /\ ~Wrote \/ ~(rendered' = rendered)
              /\ (rendered' = rendered) => (state' = state)
C5_ForcedOnlyAboveMax == [][C5_EdgeStep /\ (Forced => Edge)]_vars

C5_Witness == "onAutoSubmit" \in out /\ storage = <<MAX_EXITS + 1>>

\* The effects of the committed render run in this step.
Flushes == effectsPending /\ ~effectsPending'
\* The committed render observed an active session in a secure environment.
ObservedSecure(r) == MonitorActive(r) /\ IsSecure(r)

\* C6: within a page load the monitor counts a violation only with the
\* warningIssued latch clear (or cleared in the same step by a render that
\* observed secure = isFullscreen AND isPageVisible) and sets the latch as it
\* counts; the latch is cleared only by an effect run that observed secure;
\* and an effect run that observes an insecure active session with the latch
\* clear does count. So one continuous insecure period is counted once,
\* whichever of the two signals change during it.
C6_LatchStep ==
    /\ Edge => /\ ~warningIssued \/ (Flushes /\ ObservedSecure(rendered))
               /\ mounted' => (warningIssued' \/ ObservedSecure(rendered'))
    /\ (warningIssued /\ ~warningIssued' /\ session' = session /\ mounted') =>
          (ObservedSecure(rendered) \/ ObservedSecure(rendered'))
    /\ (Flushes /\ MonitorActive(rendered) /\ ~IsSecure(rendered)
            /\ ~rendered.warningIssued) => Edge
C6_OneCountPerInsecurePeriod == [][C6_LatchStep]_vars

C6_Witness ==
    /\ Quiescent
    /\ MonitorActive(rendered)
    /\ ~isFullscreen /\ ~isPageVisible
    /\ warningIssued
    /\ exitCount = 1

\* C7: the monitor counts, writes the persisted count, warns or forces a
\* submission only from a render in which the session is started and not
\* finished.
C7_MonitorStep ==
    (Edge \/ Warned \/ Forced \/ Emitted("toast: Auto-Submitting Exam")) =>
        (MonitorActive(rendered) \/ MonitorActive(rendered'))
C7_MonitorOnlyWhileActive == [][C7_MonitorStep]_vars

C7_Witness ==
    /\ Quiescent
    /\ ~state.examStarted
    /\ ~isPageVisible
    /\ ~warningIssued
    /\ storage = <<>>

\* C8: forced submission is called by the violation that raises the count
\* above MAX_EXITS and by no other step, so once for the 4th edge counted from
\* 0; the record it submits carries autoSubmitted = TRUE and exitCount equal
\* to the violation count at that moment (4 for the 4th edge), unless the
\* call throws or finds a submission already in flight.
LastSubmitted == inflight'[Len(inflight')]
C8_ForcedStep ==
    /\ Forced => (Edge /\ exitCount + 1 > MAX_EXITS)
    /\ (Edge /\ exitCount + 1 = MAX_EXITS + 1) => Forced
    /\ Forced => (Wrote \/ Emitted("toast: Submission Failed") \/ isSubmitting)
    /\ (Forced /\ Wrote) =>
          /\ LastSubmitted.autoSubmitted
          /\ LastSubmitted.exitCount = exitCount + 1
          /\ LastSubmitted.exitCount = StoredCount(storage')
C8_ForcedRecordCarriesCount == [][C8_ForcedStep]_vars

C8_Witness ==
    /\ "onAutoSubmit" \in out
    /\ inflight # <<>>
    /\ inflight[Len(inflight)].autoSubmitted
    /\ inflight[Len(inflight)].exitCount = MAX_EXITS + 1

\* C9: within a page load the in-memory violation count never decreases and
\* a page load starts from the persisted count; the persisted count only
\* grows, and it is removed only by a cleanup that captured
\* examFinished = TRUE.
C9_CountStep ==
    /\ (mounted /\ mounted' /\ session' = session) => exitCount' >= exitCount
    /\ (session' # session) => exitCount' = StoredCount(storage)
    /\ (storage' # storage) =>
          \/ (storage' # <<>> /\ StoredCount(storage') > StoredCount(storage))
          \/ /\ storage' = <<>>
             /\ Emitted("localStorage.removeItem")
             /\ installed.examFinished \/ rendered.state.examFinished
C9_CountMonotonic == [][C9_CountStep]_vars

C9_Witness == ~mounted /\ storage = <<>> /\ "localStorage.removeItem" \in out

\* C10: once the session is finished, and the page has rendered that and run
\* the effects of that render, the persisted violation count is cleared, so
\* the next page load of the exam starts its monitor with count 0.
C10_PageLoadAfterFinished ==
    (mounted /\ session' # session /\ state.examFinished
        /\ rendered.state.examFinished /\ ~effectsPending) =>
            (storage = <<>> /\ exitCount' = 0)
C10_LaterAttemptStartsAtZero == [][C10_PageLoadAfterFinished]_vars

\* C11: a page reload during an unfinished session (on a page that was not
\* re-initialised) keeps the violation count: the monitor started by the
\* reload begins from the persisted count, which is the count the old page
\* had reached, and the persisted count is untouched by the reload.
C11_ReloadStep ==
    (mounted /\ mounted' /\ session' # session /\ snapshots = 0
        /\ ~state.examFinished) =>
            /\ exitCount' = StoredCount(storage)
            /\ exitCount' = exitCount
            /\ storage' = storage
C11_CountSurvivesReload == [][C11_ReloadStep]_vars

\* A reloaded page, before Start, that already carries two violations.
C11_Witness ==
    /\ mounted
    /\ session = 2
    /\ snapshots = 0
    /\ ~state.examStarted
    /\ exitCount = 2
    /\ storage = <<2>>

\* C12: a submission forced by the proctoring monitor carries a status tag
\* other than 'completed' and 'graded'; a submission that is not forced
\* carries 'graded' for an mcq exam and 'completed' otherwise.
C12_ForcedSubmissionTagged ==
    \A i \in 1..Len(inflight) :
        IF inflight[i].autoSubmitted
        THEN inflight[i].status \notin {"completed", "graded"}
        ELSE inflight[i].status = (IF exam.examType = "mcq" THEN "graded" ELSE "completed")

NumberOfQuestions == Len(exam.correctOption)
\* The student selected the stored correct option of question q.
SelectedCorrect(q) ==
    /\ state.answers[q].kind = "number"
    /\ exam.correctOption[q] # <<>>
    /\ state.answers[q].num = exam.correctOption[q][1]

\* C13: in the submission of an mcq exam each answer record has marks 10 when
\* the selected option is the stored correct option of the question and 0
\* otherwise (nothing selected, no stored key, another option), and the score
\* is (number of records with marks 10) / (number of questions) * 100, kept
\* as numerator and denominator.
C13_SubmitStep ==
    (Wrote /\ exam.examType = "mcq" /\ NumberOfQuestions >= 1) =>
        /\ \A q \in 1..NumberOfQuestions :
              LastSubmitted.answers[q].marks = IF SelectedCorrect(q) THEN <<10>> ELSE <<0>>
        /\ LastSubmitted.score =
              <<100 * Cardinality({q \in 1..NumberOfQuestions :
                                     LastSubmitted.answers[q].marks = <<10>>}),
                NumberOfQuestions>>
C13_McqMarksAndScore == [][C13_SubmitStep]_vars

\* One of two questions answered correctly, the other without a stored key:
\* score 100/2.
C13_Witness ==
    /\ exam.examType = "mcq"
    /\ Len(inflight) = 1
    /\ Len(inflight[1].answers) = 2
    /\ inflight[1].answers[1].marks = <<10>>
    /\ inflight[1].answers[2].marks = <<0>>
    /\ inflight[1].answers[2].correctOption = <<>>
    /\ inflight[1].score = <<100, 2>>

\* C14: the submission of an exam that is not mcq carries no automatic
\* scoring: no record has marks, there is no score, the status is 'completed'.
C14_SubmitStep ==
    (Wrote /\ exam.examType # "mcq") =>
        /\ \A q \in 1..NumberOfQuestions : LastSubmitted.answers[q].marks = <<>>
        /\ LastSubmitted.score = <<>>
        /\ LastSubmitted.status = "completed"
C14_SubjectiveUnscored == [][C14_SubmitStep]_vars

C14_Witness ==
    /\ exam.examType = "long-answer"
    /\ Len(inflight) = 1
    /\ Len(inflight[1].answers) = 2
    /\ inflight[1].answers[1].textAnswer = <<"a">>
    /\ inflight[1].answers[1].marks = <<>>
    /\ inflight[1].status = "completed"

\* C15: the submission has one answer record per question of the exam, in the
\* exam's order, each with the status and the answer value the session state
\* handed to handleSubmitExam holds for that question: the selected option of
\* an mcq question (none when the value is not a number), the text of a
\* subjective one (empty when the value is not a string).
C15_SubmitStep ==
    Wrote =>
        /\ Len(LastSubmitted.answers) = NumberOfQuestions
        /\ \A q \in 1..NumberOfQuestions :
              /\ LastSubmitted.answers[q].status = state.statuses[q]
              /\ IF exam.examType = "mcq"
                 THEN LastSubmitted.answers[q].selectedOption =
                          (IF state.answers[q].kind = "number"
                           THEN <<state.answers[q].num>> ELSE <<>>)
                 ELSE LastSubmitted.answers[q].textAnswer =
                          <<IF state.answers[q].kind = "string"
                            THEN state.answers[q].str ELSE "">>
C15_OneRecordPerQuestion == [][C15_SubmitStep]_vars

\* The first question answered, the second never touched.
C15_Witness ==
    /\ exam.examType = "mcq"
    /\ Len(inflight) = 1
    /\ Len(inflight[1].answers) = 2
    /\ inflight[1].answers[1].status = "answered"
    /\ inflight[1].answers[1].selectedOption = <<1>>
    /\ inflight[1].answers[2].status = "not-visited"
    /\ inflight[1].answers[2].selectedOption = <<>>

\* The exam documents that differ from ex in stored correct options only.
KeyVariants(ex) ==
    {other \in BuilderExams :
        /\ other.examType = ex.examType
        /\ other.timeLeft = ex.timeLeft
        /\ Len(other.correctOption) = Len(ex.correctOption)}

\* C16: examForStudent holds no correct option: every exam document that
\* differs from the session's in correct options only has the same
\* examForStudent; the initial session state is computed from examForStudent
\* alone, and until the submission every next session state is examReducer
\* applied to the state and a dispatched action, none of which reads the
\* exam document.
C16_Step ==
    /\ \A other \in KeyVariants(exam) :
          /\ examForStudent(other) = examForStudent(exam)
          /\ InitialStateOf(examForStudent(other)) = initialState(exam)
    /\ (writes' = 0) =>
          \E a \in {Act("START_EXAM"), Act("NEXT_QUESTION")}
                     \cup {ActToggle(q) : q \in 1..NumberOfQuestions}
                     \cup {ActAnswer(q, v) : q \in 1..NumberOfQuestions,
                                              v \in AllAnswerValues} :
              state' = examReducer(state, a)
C16_AnswerKeyRedacted == [][C16_Step]_vars

\* A running session on an exam whose first question has a stored key, the
\* student having selected the other option.
C16_Witness ==
    /\ writes = 0
    /\ NumberOfQuestions = 2
    /\ exam.correctOption[1] = <<1>>
    /\ state.answers[1] = NumAnswer(0)
    /\ Cardinality(KeyVariants(exam)) > 1

\* C17: a new snapshot of the exam document delivered to an open page does
\* not change the session state.
C17_SnapshotStep ==
    (mounted /\ mounted' /\ session' = session /\ snapshots' # snapshots) =>
        state' = state
C17_InitializeOnce == [][C17_SnapshotStep]_vars

\* The action examReducer was applied to in this step.
Dispatched(type) == lastAction'.type = type
IndexInRange(s) ==
    s.currentQuestionIndex >= 0 /\ s.currentQuestionIndex <= s.totalQuestions - 1

\* C18: on a started session whose index is in range, NEXT_QUESTION and
\* PREV_QUESTION move the index by +1 and -1 clamped to [0, total-1], and the
\* question at the new index is not not-visited afterwards.
C18_NavigationStep ==
    (state.examStarted /\ IndexInRange(state)) =>
        /\ Dispatched("NEXT_QUESTION") =>
              /\ state'.currentQuestionIndex =
                    Min(state.currentQuestionIndex + 1, state.totalQuestions - 1)
              /\ state'.statuses[state'.currentQuestionIndex + 1] # "not-visited"
        /\ Dispatched("PREV_QUESTION") =>
              /\ state'.currentQuestionIndex = Max(state.currentQuestionIndex - 1, 0)
              /\ state'.statuses[state'.currentQuestionIndex + 1] # "not-visited"
C18_NextPrevPromote == [][C18_NavigationStep]_vars

\* C19: JUMP_TO_QUESTION with a payload outside [0, total-1] leaves the state
\* as it was; with a valid payload it sets the index to the payload and the
\* question there is not not-visited afterwards.
C19_JumpStep ==
    Dispatched("JUMP_TO_QUESTION") =>
        IF lastAction'.payload < 0 \/ lastAction'.payload > state.totalQuestions - 1
        THEN state' = state
        ELSE /\ state'.currentQuestionIndex = lastAction'.payload
             /\ state'.statuses[lastAction'.payload + 1] # "not-visited"
C19_JumpOutOfRangeIsNoOp == [][C19_JumpStep]_vars

\* C20: ANSWER records the value for its question; the status of that
\* question stays marked-for-review when it was, and becomes answered
\* otherwise; nothing else of the state changes.
C20_AnswerStep ==
    Dispatched("ANSWER") =>
        LET q == lastAction'.questionId
        IN  /\ state'.answers[q] = lastAction'.value
            /\ state'.statuses[q] =
                  (IF state.statuses[q] = "marked-for-review"
                   THEN "marked-for-review" ELSE "answered")
            /\ state' = [state EXCEPT !.answers[q] = state'.answers[q],
                                      !.statuses[q] = state'.statuses[q]]
C20_AnswerKeepsReviewMark == [][C20_AnswerStep]_vars

\* An ANSWER just applied to a question that was and stays marked for review.
C20_Witness ==
    /\ lastAction.type = "ANSWER"
    /\ lastAction.value = NumAnswer(1)
    /\ lastAction.questionId <= Len(state.statuses)
    /\ state.statuses[lastAction.questionId] = "marked-for-review"
    /\ state.answers[lastAction.questionId] = NumAnswer(1)

\* C21: TOGGLE_MARK_FOR_REVIEW on a question marked for review sets its
\* status to answered when the answers Map holds a value for it and to
\* not-answered when it holds none; on a question in any other status it sets
\* marked-for-review; the answers and everything else stay as they were.
C21_ToggleStep ==
    Dispatched("TOGGLE_MARK_FOR_REVIEW") =>
        LET q == lastAction'.questionId
        IN  /\ state'.statuses[q] =
                  (IF state.statuses[q] = "marked-for-review"
                   THEN (IF state.answers[q] # NullAnswer
                         THEN "answered" ELSE "not-answered")
                   ELSE "marked-for-review")
            /\ state'.answers = state.answers
            /\ state' = [state EXCEPT !.statuses[q] = state'.statuses[q]]
C21_ToggleRevertsByAnswer == [][C21_ToggleStep]_vars

\* A toggle just reverted a marked question that has an answer to answered.
C21_Witness ==
    /\ lastAction.type = "TOGGLE_MARK_FOR_REVIEW"
    /\ lastAction.questionId <= Len(state.statuses)
    /\ state.statuses[lastAction.questionId] = "answered"
    /\ state.answers[lastAction.questionId] = NumAnswer(0)

\* C22: TICK_TIMER at timeLeft = 1 yields timeLeft = 0 and examFinished in
\* that one step; at timeLeft > 1 it decrements timeLeft by one and leaves
\* examFinished as it was, which is false.
C22_TickStep ==
    Dispatched("TICK_TIMER") =>
        /\ state.timeLeft = 1 => (state'.timeLeft = 0 /\ state'.examFinished)
        /\ state.timeLeft > 1 =>
              /\ state'.timeLeft = state.timeLeft - 1
              /\ state'.examFinished = state.examFinished
              /\ ~state'.examFinished
        /\ state' = [state EXCEPT !.timeLeft = state'.timeLeft,
                                  !.examFinished = state'.examFinished]
C22_LastTickFinishes == [][C22_TickStep]_vars

\* A tick just took a started session of a one-second exam from 1 to 0.
C22_Witness ==
    /\ lastAction.type = "TICK_TIMER"
    /\ exam.timeLeft = 1
    /\ state = [ReduceStart(initialState(exam)) EXCEPT !.timeLeft = 0,
                                                       !.examFinished = TRUE]

\* C23: in every reachable session state, examFinished implies timeLeft = 0.
C23_FinishedHasNoTimeLeft ==
    /\ state.examFinished => state.timeLeft = 0
    /\ rendered.state.examFinished => rendered.state.timeLeft = 0

\* A session finished by a submission while time was left on the clock.
C23_Witness ==
    /\ mounted
    /\ state.examFinished
    /\ state.timeLeft = 0
    /\ writes = 1
    /\ rendered.state.timeLeft = MaxTime
    /\ ~rendered.state.examFinished

\* C24: the interval of the countdown effect exists only while the session
\* is started and not finished, so no tick can be delivered to a session that
\* is not started or is finished.
C24_IntervalOnlyWhileActive ==
    (mounted /\ TimerInstalled(World)) => (state.examStarted /\ ~state.examFinished)

\* C25: FINISH_EXAM sets examFinished = true and timeLeft = 0 from any state
\* and changes nothing else: index, statuses, answers, examStarted and
\* totalQuestions stay as they were.
C25_FinishStep ==
    Dispatched("FINISH_EXAM") =>
        /\ state'.examFinished
        /\ state'.timeLeft = 0
        /\ state'.currentQuestionIndex = state.currentQuestionIndex
        /\ state'.statuses = state.statuses
        /\ state'.answers = state.answers
        /\ state'.examStarted = state.examStarted
        /\ state'.totalQuestions = state.totalQuestions
C25_FinishChangesNothingElse == [][C25_FinishStep]_vars

\* A finish applied on the second question of a started, answered session
\* that had time left.
C25_Witness ==
    /\ lastAction.type = "FINISH_EXAM"
    /\ exam.timeLeft = MaxTime
    /\ state.examFinished
    /\ state.timeLeft = 0
    /\ state.examStarted
    /\ state.currentQuestionIndex = 1
    /\ state.totalQuestions = 2
    /\ state.answers[1] = NumAnswer(1)
    /\ state.statuses = <<"answered", "not-answered">>

\* C26: START_EXAM sets examStarted = true and takes the first question from
\* not-visited to not-answered; it changes no other status, no answer, not
\* the index and not the remaining time.
C26_StartStep ==
    Dispatched("START_EXAM") =>
        /\ state'.examStarted
        /\ state' = [state EXCEPT !.examStarted = TRUE,
                                  !.statuses = [q \in 1..Len(state.statuses) |->
                                      IF q = 1 /\ state.statuses[q] = "not-visited"
                                      THEN "not-answered" ELSE state.statuses[q]]]
C26_StartMarksFirstSeen == [][C26_StartStep]_vars

\* The session right after Start: the first question seen, the second not.
C26_Witness ==
    /\ lastAction.type = "START_EXAM"
    /\ Len(state.statuses) = 2
    /\ state = [initialState(exam) EXCEPT !.examStarted = TRUE,
                                          !.statuses = <<"not-answered", "not-visited">>]

\* The positions whose status, and those whose answer, a step changed.
StatusChanged == {q \in 1..Len(state.statuses) : state'.statuses[q] # state.statuses[q]}
AnswerChanged == {q \in 1..Len(state.answers) : state'.answers[q] # state.answers[q]}

\* C27: ANSWER and TOGGLE_MARK_FOR_REVIEW change the status and the answer
\* of no question but their own; NEXT_QUESTION, PREV_QUESTION and
\* JUMP_TO_QUESTION change no answer and no status but that of the question
\* they land on, which they only take from not-visited to not-answered.
C27_FrameStep ==
    /\ DOMAIN state'.statuses = DOMAIN state.statuses
    /\ DOMAIN state'.answers = DOMAIN state.answers
    /\ (Dispatched("ANSWER") \/ Dispatched("TOGGLE_MARK_FOR_REVIEW")) =>
          /\ StatusChanged \subseteq {lastAction'.questionId}
          /\ AnswerChanged \subseteq {lastAction'.questionId}
    /\ (Dispatched("NEXT_QUESTION") \/ Dispatched("PREV_QUESTION")
            \/ Dispatched("JUMP_TO_QUESTION")) =>
          /\ AnswerChanged = {}
          /\ StatusChanged \subseteq {state'.currentQuestionIndex + 1}
          /\ \A q \in StatusChanged :
                state.statuses[q] = "not-visited" /\ state'.statuses[q] = "not-answered"
C27_OtherQuestionsUntouched == [][C27_FrameStep]_vars

\* Q1 answered, Q2 marked without an answer, then a jump to Q3 that made it
\* not-answered and left the other two as they were.
C27_Witness ==
    /\ lastAction = ActJump(2)
    /\ state.currentQuestionIndex = 2
    /\ state.statuses = <<"answered", "marked-for-review", "not-answered">>
    /\ state.answers = <<NumAnswer(0), NullAnswer, NullAnswer>>

\* The step in which the session starts, and the step in which a request
\* for full-screen is rejected.
Started == ~state.examStarted /\ state'.examStarted

\* C28: the Start step requests full-screen and starts the session without
\* waiting for the answer: the session is started outside full-screen, the
\* countdown is installed, and the monitor counts one violation and warns in
\* that step; when the request is then rejected the session stays started,
\* the countdown stays installed and no further violation is counted.
C28_StartStep ==
    /\ Started =>
          /\ fsRequest' = "pending"
          /\ ~isFullscreen'
          /\ TimerInstalled([installed |-> installed'])
          /\ exitCount' = exitCount + 1
          /\ storage' = <<exitCount'>>
          /\ warningIssued'
          /\ Warned
    /\ Emitted("toast: Could not enter full-screen") =>
          /\ state' = state
          /\ installed' = installed
          /\ ~isFullscreen'
          /\ exitCount' = exitCount
          /\ storage' = storage
          /\ warningIssued' = warningIssued
C28_StartsDespiteDeniedFullscreen == [][C28_StartStep]_vars

\* The request made by Start has just been rejected: the session runs
\* outside full-screen with one violation counted.
C28_Witness ==
    /\ mounted
    /\ "toast: Could not enter full-screen" \in out
    /\ state.examStarted
    /\ ~state.examFinished
    /\ state.timeLeft = MaxTime
    /\ TimerInstalled(World)
    /\ ~isFullscreen
    /\ exitCount = 1
    /\ storage = <<1>>
    /\ warningIssued

\* The store accepted the oldest write in flight in this step.
Stored == inflight # <<>> /\ inflight' = Tail(inflight) /\ lastWrite' = "ok"

\* C29: every accepted write of a submission leaves exactly one stored
\* record for the student and the exam, under the reference of the write;
\* the record holds the value of every field the write carries, and keeps
\* the stored value of a field the write does not carry.
C29_StoreStep ==
    Stored =>
        LET write == Head(inflight)
        IN  /\ Len(store') = 1
            /\ store'[1].ref = write.ref
            /\ \A f \in DOMAIN write :
                  IF f = "score" /\ write[f] = <<>>
                  THEN store # <<>> => store'[1][f] = store[1][f]
                  ELSE store'[1][f] = write[f]
C29_SecondWriteOverwrites == [][C29_StoreStep]_vars

\* Two submissions of one page load have been accepted, the manual one
\* first and the forced one second, and the record is the second.
C29_Witness ==
    /\ writes = 2
    /\ inflight = <<>>
    /\ Len(store) = 1
    /\ store[1].autoSubmitted

\* C30: with the exam open in several tabs, a violation counted by a tab
\* writes that tab's own in-memory count + 1 to localStorage, whatever the
\* persisted value and the counts of the other tabs are, and changes no
\* other tab's in-memory count.
C30_TabStep ==
    Edge =>
        \E t \in TabIds :
            /\ tabs'[t].exitCount = tabs[t].exitCount + 1
            /\ storage' = <<tabs[t].exitCount + 1>>
            /\ \A u \in TabIds \ {t} : tabs'[u] = tabs[u]
C30_LastWriterWins == [][C30_TabStep]_vars

\* Tab 1 has counted two violations and tab 2, the last writer, one: the
\* persisted count went back to 1.
C30_Witness ==
    /\ tabs[1].exitCount = 2
    /\ tabs[2].exitCount = 1
    /\ storage = <<1>>

\* The number a marks text of the form digits, -digits or digits e digits
\* denotes lies outside 0..10; and a text without any digit, which denotes
\* no number.
RECURSIVE Pow10(_)
Pow10(k) == IF k = 0 THEN 1 ELSE 10 * Pow10(k - 1)
AllDigits(str) == str # <<>> /\ \A i \in 1..Len(str) : IsDigit(str[i])
DenotesOutOfRange(str) ==
    \/ AllDigits(str) /\ DecimalValue(str) > 10
    \/ Len(str) > 1 /\ Head(str) = "-" /\ AllDigits(Tail(str))
           /\ DecimalValue(Tail(str)) > 0
    \/ \E i \in 2..(Len(str) - 1) :
           /\ str[i] = "e"
           /\ AllDigits(SubSeq(str, 1, i - 1))
           /\ AllDigits(SubSeq(str, i + 1, Len(str)))
           /\ DecimalValue(SubSeq(str, 1, i - 1))
                  * Pow10(DecimalValue(SubSeq(str, i + 1, Len(str)))) > 10
DenotesNoNumber(str) == str # <<>> /\ \A i \in 1..Len(str) : ~IsDigit(str[i])

\* C31: after every handleMarksChange the marks of every answer are unset
\* or an integer in 0..10, and an input that denotes a number outside 0..10
\* or no number is rejected with the notice and leaves the marks unchanged.
C31_MarksStep ==
    (grading.open /\ grading'.open) =>
        /\ \A q \in 1..Len(grading'.marks) :
              grading'.marks[q] = <<>> \/ grading'.marks[q][1] \in 0..10
        /\ (DenotesOutOfRange(grading'.input.value)
                \/ DenotesNoNumber(grading'.input.value)) =>
              /\ grading'.marks = grading.marks
              /\ grading'.notice
C31_OutOfRangeMarksRejected == [][C31_MarksStep]_vars

\* C32: the submission handed to the store carries autoSubmitted = true
\* exactly when the proctoring monitor forced it (onAutoSubmit); a submission
\* by Submit Exam or by the time-expiry effect carries false.
C32_SubmitStep ==
    (Wrote /\ Len(inflight') = Len(inflight) + 1) =>
        (LastSubmitted.autoSubmitted <=> Forced)
C33_StartStep ==
    (Started \/ (fsRequest = "pending" /\ isFullscreen' /\ ~isFullscreen)) =>
        (exitCount' = exitCount /\ storage' = storage /\ ~Edge)
C33_GrantedStartCountsNothing == [][C33_StartStep]_vars

\* C34: no submission is handed to the store while the session is not
\* started.
C34_SubmitStep == Wrote => (state.examStarted /\ rendered.state.examStarted)
C35_AnsweredIffValue ==
    \A q \in 1..Len(state.statuses) :
        /\ state.statuses[q] = "answered" => state.answers[q] # NullAnswer
        /\ state.answers[q] # NullAnswer =>
              state.statuses[q] \in {"answered", "marked-for-review"}

\* A marked question with a value next to one that was marked and unmarked
\* without a value.
C35_Witness ==
    /\ Len(state.statuses) = 2
    /\ state.statuses = <<"marked-for-review", "not-answered">>
    /\ state.answers = <<StrAnswer("a"), NullAnswer>>
    /\ lastAction = ActToggle(2)

\* C36: no action of the reducer raises timeLeft; a TICK_TIMER on an
\* unfinished session with timeLeft >= 1 lowers it by exactly one and
\* finishes the session exactly when timeLeft was 1, so that d ticks and no
\* fewer finish a session of d seconds; and with the interval firing again
\* and again every started session is eventually finished.
C36_TimeStep ==
    /\ state'.timeLeft <= state.timeLeft
    /\ (Dispatched("TICK_TIMER") /\ ~state.examFinished /\ state.timeLeft >= 1) =>
          /\ state'.timeLeft = state.timeLeft - 1
          /\ state'.examFinished <=> state.timeLeft = 1
C36_CountdownFinishes ==
    /\ [][C36_TimeStep]_vars
    /\ (state.examStarted /\ ~state.examFinished) ~> state.examFinished

\* A started session of MaxTime seconds finished by its last tick, with
\* nothing else touched.
C36_Witness ==
    /\ lastAction.type = "TICK_TIMER"
    /\ exam.timeLeft = MaxTime
    /\ Len(state.statuses) = 1
    /\ state = [ReduceStart(initialState(exam)) EXCEPT !.timeLeft = 0,
                                                       !.examFinished = TRUE]

\* C37: once examFinished is true no action of the reducer makes it false,
\* and TICK_TIMER and FINISH_EXAM leave a finished state as it is.
C37_FinishedStep ==
    state.examFinished =>
        /\ state'.examFinished
        /\ (Dispatched("TICK_TIMER") \/ Dispatched("FINISH_EXAM")) => state' = state
C37_FinishedIsAbsorbing == [][C37_FinishedStep]_vars

\* START_EXAM applied to a session that was finished before it was started.
C37_Witness ==
    /\ lastAction.type = "START_EXAM"
    /\ state.examFinished
    /\ state.examStarted
    /\ state.timeLeft = 0
    /\ exam.timeLeft = MaxTime

\* C38: a question that has left not-visited is never not-visited again,
\* whatever action the reducer is applied to.
C38_StatusStep ==
    /\ Len(state'.statuses) = Len(state.statuses)
    /\ \A q \in 1..Len(state.statuses) :
          state.statuses[q] # "not-visited" => state'.statuses[q] # "not-visited"
C38_NeverBackToNotVisited == [][C38_StatusStep]_vars

\* A question marked and unmarked without ever being answered or visited.
C38_Witness ==
    /\ lastAction = ActToggle(2)
    /\ ~state.examStarted
    /\ Len(state.statuses) = 2
    /\ state.statuses = <<"not-visited", "not-answered">>
    /\ state.answers[2] = NullAnswer

====
